---- MODULE Spec2Model ----
(***************************************************************************)
(* A model of src/objects-tasks.js: the css selector builder               *)
(* (BaseElement, cssSelectorBuilder), sellTickets and compareObjects.      *)
(*                                                                         *)
(* Strings are sequences of one-character strings, so that concatenation   *)
(* is \o and '' is << >>.  A JavaScript array is a cell of the heap        *)
(* `arrays`; an object holds the index of its `selectors` array, so that   *)
(* two objects sharing one array is a state the model can be in.           *)
(***************************************************************************)
EXTENDS Integers, Sequences, FiniteSets, TLC

VARIABLES arrays,     \* heap of arrays: arrays[r] is a sequence of { type, value, order }
          objs,       \* heap of objects; objs[1] is cssSelectorBuilder
          chain,      \* chain[o]: the builder calls <<[type, value], ...>> that produced objs[o]
          last,       \* the last call made on the builder and its outcome
          queue, sold,          \* sellTickets: its argument, and << what it returned >>
          obj1, obj2, equal     \* compareObjects: its arguments, and << what it returned >>

vars == <<arrays, objs, chain, last, queue, sold, obj1, obj2, equal>>

builderVars == <<arrays, objs, chain, last>>
ticketVars  == <<queue, sold>>
compareVars == <<obj1, obj2, equal>>

\* ------------------------------------------------------------------ bounds

MaxObjs == 2          \* objects created by builder calls, besides cssSelectorBuilder
MaxQueue == 7         \* customers in the queue

Values == { <<"a">>, <<"b", "c">> }          \* the `value` arguments tried
Combinators == { <<" ">>, <<"+">> }          \* the `combinator` arguments tried
Types == { "element", "id", "class", "attr", "pseudoClass", "pseudoElement" }

\* ------------------------------------------------------------------ css selector builder

\* checkOrder with `<=` for `<`: equal consecutive orders are refused.
checkOrderStrict(selectors) ==
  \E i \in 1..Len(selectors) :
     selectors[i].order <= (IF i = 1 THEN 0 ELSE selectors[i - 1].order)

\* checkOrder without `prevElOrder = el.order`: every order is compared with 0.
checkOrderNoPrev(selectors) ==
  \E i \in 1..Len(selectors) : selectors[i].order < 0

\* BaseElement.checkOrder: TRUE when it throws.
checkOrder(selectors) ==
  \E i \in 1..Len(selectors) :
     selectors[i].order < (IF i = 1 THEN 0 ELSE selectors[i - 1].order)

\* A value of the tally of validateMetod: a number, undefined or NaN.
Num(n) == [is |-> "number", n |-> n]
Undefined == [is |-> "undefined", n |-> 0]
NaN == [is |-> "NaN", n |-> 0]

\* validateObj[key] after the forEach of validateMetod: the object literal has
\* the three keys at 0, and `undefined + 1` makes every other type NaN.
RECURSIVE validateObj(_, _)
validateObj(selectors, key) ==
  IF selectors = << >>
    THEN IF key \in { "element", "id", "pseudoElement" } THEN Num(0) ELSE Undefined
    ELSE LET n    == Len(selectors)
             prev == validateObj(SubSeq(selectors, 1, n - 1), key)
         IN  IF selectors[n].type # key THEN prev
             ELSE IF prev.is = "number" THEN Num(prev.n + 1)
             ELSE NaN

\* The tally as the variant of validateMetod left in a comment of the source
\* keeps it: an empty object literal, set to 0 at the first occurrence of a type.
RECURSIVE validateObjFromZero(_, _)
validateObjFromZero(selectors, key) ==
  IF selectors = << >>
    THEN Undefined
    ELSE LET n    == Len(selectors)
             prev == validateObjFromZero(SubSeq(selectors, 1, n - 1), key)
         IN  IF selectors[n].type # key THEN prev
             ELSE IF prev.is = "undefined" THEN Num(0)
             ELSE Num(prev.n + 1)

validateMetodFromZero(selectors, selectorType) ==
  LET validateArr == { "element", "id", "pseudoElement" }
      count == validateObjFromZero(selectors, selectorType)
  IN  selectorType \in validateArr /\ count.is = "number" /\ count.n > 0

\* cssSelectorBuilder.validateMetod: TRUE when it throws.
validateMetod(selectors, selectorType) ==
  LET validateArr == { "element", "id", "pseudoElement" }
      count == validateObj(selectors, selectorType)
  IN  selectorType \in validateArr /\ count.is = "number" /\ count.n > 0

\* The outcome of a builder call: arrs is the heap of arrays after it, ref the
\* `selectors` array of the object returned (0 when the call throws).
Returned(arrs, ref) == [outcome |-> "ok", arrays |-> arrs, ref |-> ref]
Thrown(err, arrs)   == [outcome |-> err, arrays |-> arrs, ref |-> 0]

\* new BaseElement(obj, { selectors }): Object.assign, then checkOrder.
BaseElement(arrs, newSelectors) ==
  IF checkOrder(arrs[newSelectors])
    THEN Thrown("order", arrs)
    ELSE Returned(arrs, newSelectors)

\* privatMethod with this.selectors.push(...) for the spread into a new array:
\* the object returned shares the receiver's array.
privatMethodPush(arrs, this, prefix, order, type, value, prefixEnd) ==
  LET fragment == [type |-> type, value |-> prefix \o value \o prefixEnd, order |-> order]
  IN  BaseElement([arrs EXCEPT ![this] = Append(@, fragment)], this)

\* cssSelectorBuilder.privatMethod; this is the receiver's `selectors` array.
privatMethod(arrs, this, prefix, order, type, value, prefixEnd) ==
  LET newSelectors ==
        Append(arrs[this], [type |-> type, value |-> prefix \o value \o prefixEnd, order |-> order])
  IN  BaseElement(Append(arrs, newSelectors), Len(arrs) + 1)

\* element with the two statements swapped: privatMethod before validateMetod.
elementOrderFirst(arrs, this, value) ==
  LET r == privatMethod(arrs, this, << >>, 1, "element", value, << >>)
  IN  IF r.outcome # "ok" THEN r
      ELSE IF validateMetod(arrs[this], "element") THEN Thrown("dup", arrs)
      ELSE r

element(arrs, this, value) ==
  IF validateMetod(arrs[this], "element") THEN Thrown("dup", arrs)
  ELSE privatMethod(arrs, this, << >>, 1, "element", value, << >>)

id(arrs, this, value) ==
  IF validateMetod(arrs[this], "id") THEN Thrown("dup", arrs)
  ELSE privatMethod(arrs, this, <<"#">>, 2, "id", value, << >>)

class(arrs, this, value) ==
  IF validateMetod(arrs[this], "class") THEN Thrown("dup", arrs)
  ELSE privatMethod(arrs, this, <<".">>, 3, "class", value, << >>)

attr(arrs, this, value) ==
  IF validateMetod(arrs[this], "attr") THEN Thrown("dup", arrs)
  ELSE privatMethod(arrs, this, <<"[">>, 4, "attr", value, <<"]">>)

pseudoClass(arrs, this, value) ==
  IF validateMetod(arrs[this], "pseudoClass") THEN Thrown("dup", arrs)
  ELSE privatMethod(arrs, this, <<":">>, 5, "pseudoClass", value, << >>)

pseudoElement(arrs, this, value) ==
  IF validateMetod(arrs[this], "pseudoElement") THEN Thrown("dup", arrs)
  ELSE privatMethod(arrs, this, <<":", ":">>, 6, "pseudoElement", value, << >>)

\* stringify with `el.value + acc` for `acc + el.value`.
RECURSIVE stringifyReversed(_)
stringifyReversed(selectors) ==
  IF selectors = << >> THEN << >>
  ELSE selectors[Len(selectors)].value \o stringifyReversed(SubSeq(selectors, 1, Len(selectors) - 1))

\* cssSelectorBuilder.stringify: the reduce over this.selectors.
RECURSIVE stringify(_)
stringify(selectors) ==
  IF selectors = << >> THEN << >>
  ELSE stringify(SubSeq(selectors, 1, Len(selectors) - 1)) \o selectors[Len(selectors)].value

\* The template literal without its two spaces.
combinedStringifyNoSpace(s1, combinator, s2) == s1 \o combinator \o s2

\* The stringify of the object combine returns, given its operands' strings.
combinedStringify(s1, combinator, s2) == s1 \o <<" ">> \o combinator \o <<" ">> \o s2

\* o.stringify() for an object of the heap: the method the object has.
RECURSIVE callStringify(_, _, _)
callStringify(os, arrs, o) ==
  IF os[o].kind = "selector"
    THEN stringify(arrs[os[o].selectors])
    ELSE combinedStringify(callStringify(os, arrs, os[o].selector1),
                           os[o].combinator,
                           callStringify(os, arrs, os[o].selector2))

\* cssSelectorBuilder.combine: the object it returns closes over its arguments.
combine(selector1, combinator, selector2) ==
  [kind |-> "combined", selectors |-> 0,
   selector1 |-> selector1, combinator |-> combinator, selector2 |-> selector2]

\* An object that carries the builder's methods and a `selectors` array.
SelectorObj(ref) ==
  [kind |-> "selector", selectors |-> ref,
   selector1 |-> 0, combinator |-> << >>, selector2 |-> 0]

Call(op, recv, type, value, outcome, result, str) ==
  [op |-> op, recv |-> recv, type |-> type, value |-> value,
   outcome |-> outcome, result |-> result, str |-> str]

\* The objects that have the builder methods: cssSelectorBuilder and the
\* BaseElement objects (Object.assign copies the methods); the object combine
\* returns has stringify alone.
Selectors == { o \in 1..Len(objs) : objs[o].kind = "selector" }

\* A builder call on the object o of the heap, r being what the method computed.
\* Arrays a failed call allocated are unreachable and dropped.
Invoke(o, type, value, r) ==
  /\ UNCHANGED <<ticketVars, compareVars>>
  /\ IF r.outcome = "ok"
       THEN /\ Len(objs) <= MaxObjs
            /\ arrays' = r.arrays
            /\ objs' = Append(objs, SelectorObj(r.ref))
            /\ chain' = Append(chain, Append(chain[o], [type |-> type, value |-> value]))
            /\ last' = Call("call", o, type, value, "ok", Len(objs) + 1, << >>)
       ELSE /\ arrays' = SubSeq(r.arrays, 1, Len(arrays))
            /\ UNCHANGED <<objs, chain>>
            /\ last' = Call("call", o, type, value, r.outcome, 0, << >>)

Element == \E o \in Selectors, v \in Values :
  Invoke(o, "element", v, element(arrays, objs[o].selectors, v))

Id == \E o \in Selectors, v \in Values :
  Invoke(o, "id", v, id(arrays, objs[o].selectors, v))

Class == \E o \in Selectors, v \in Values :
  Invoke(o, "class", v, class(arrays, objs[o].selectors, v))

Attr == \E o \in Selectors, v \in Values :
  Invoke(o, "attr", v, attr(arrays, objs[o].selectors, v))

PseudoClass == \E o \in Selectors, v \in Values :
  Invoke(o, "pseudoClass", v, pseudoClass(arrays, objs[o].selectors, v))

PseudoElement == \E o \in Selectors, v \in Values :
  Invoke(o, "pseudoElement", v, pseudoElement(arrays, objs[o].selectors, v))

Stringify == \E o \in 1..Len(objs) :
  /\ last' = Call("stringify", o, "", << >>, "ok", 0, callStringify(objs, arrays, o))
  /\ UNCHANGED <<arrays, objs, chain, ticketVars, compareVars>>

Combine == \E s1 \in 1..Len(objs), s2 \in 1..Len(objs), c \in Combinators :
  /\ Len(objs) <= MaxObjs
  /\ objs' = Append(objs, combine(s1, c, s2))
  /\ chain' = Append(chain, << >>)
  /\ last' = Call("combine", s1, "", c, "ok", Len(objs) + 1, << >>)
  /\ UNCHANGED <<arrays, ticketVars, compareVars>>

IdleTickets == queue = << >> /\ sold = << >>
IdleCompare == obj1 = << >> /\ obj2 = << >> /\ equal = << >>
IdleBuilder ==
  /\ arrays = << << >> >>
  /\ objs = << SelectorObj(1) >>
  /\ chain = << << >> >>
  /\ last = Call("init", 0, "", << >>, "ok", 0, << >>)

Init == IdleBuilder /\ IdleTickets /\ IdleCompare

Next ==
  \/ Element
  \/ Id
  \/ Class
  \/ Attr
  \/ PseudoClass
  \/ PseudoElement
  \/ Stringify
  \/ Combine

Spec == Init /\ [][Next]_vars

\* ------------------------------------------------------------------ sellTickets

Bills == { 25, 50, 100 }

Queues == UNION { [1..n -> Bills] : n \in 0..MaxQueue }

\* What the callback of queue.every returns for one payment, and the tally after it.
Callback(ret, change) == [ret |-> ret, change |-> change]

\* The callback with the two ways of changing a 100 tried in the other order.
callbackThreeFirst(change, payment) ==
  IF payment = 25
    THEN Callback(TRUE, [change EXCEPT !.cach25 = @ + 1])
  ELSE IF payment = 50
    THEN IF change.cach25 # 0
           THEN Callback(TRUE, [cach25 |-> change.cach25 - 1, cach50 |-> change.cach50 + 1])
           ELSE Callback(FALSE, change)
  ELSE IF payment = 100
    THEN IF change.cach25 > 2
           THEN Callback(TRUE, [change EXCEPT !.cach25 = @ - 3])
         ELSE IF change.cach50 # 0 /\ change.cach25 # 0
           THEN Callback(TRUE, [cach25 |-> change.cach25 - 1, cach50 |-> change.cach50 - 1])
         ELSE Callback(FALSE, change)
  ELSE Callback(TRUE, change)

\* (payment) => { ... } of sellTickets.
callback(change, payment) ==
  IF payment = 25
    THEN Callback(TRUE, [change EXCEPT !.cach25 = @ + 1])
  ELSE IF payment = 50
    THEN IF change.cach25 # 0
           THEN Callback(TRUE, [cach25 |-> change.cach25 - 1, cach50 |-> change.cach50 + 1])
           ELSE Callback(FALSE, change)
  ELSE IF payment = 100
    THEN IF change.cach50 # 0 /\ change.cach25 # 0
           THEN Callback(TRUE, [cach25 |-> change.cach25 - 1, cach50 |-> change.cach50 - 1])
         ELSE IF change.cach25 > 2
           THEN Callback(TRUE, [change EXCEPT !.cach25 = @ - 3])
         ELSE Callback(FALSE, change)
  ELSE Callback(TRUE, change)

\* Array.prototype.every with that callback: stops at the first false.
RECURSIVE every(_, _)
every(q, change) ==
  IF q = << >> THEN TRUE
  ELSE LET r == callback(change, Head(q))
       IN  IF r.ret THEN every(Tail(q), r.change) ELSE FALSE

sellTickets(q) == every(q, [cach25 |-> 0, cach50 |-> 0])

SellTickets ==
  /\ sold = << >>
  /\ sold' = << sellTickets(queue) >>
  /\ UNCHANGED <<queue, builderVars, compareVars>>

InitTickets ==
  /\ queue \in Queues
  /\ sold = << >>
  /\ IdleBuilder
  /\ IdleCompare

NextTickets == SellTickets

SpecTickets == InitTickets /\ [][NextTickets]_vars

\* ------------------------------------------------------------------ compareObjects

Keys == { "a", "b" }

PropertyValues == { Num(1), Num(2), Undefined, NaN }

\* The flat objects over Keys: an object is the function from its own keys to their values.
Objects == UNION { [D -> PropertyValues] : D \in SUBSET Keys }

\* obj[key]: undefined when obj has no such property.
Get(obj, key) == IF key \in DOMAIN obj THEN obj[key] ELSE Undefined

\* x === y
StrictEquals(x, y) == x = y /\ x.is # "NaN"

compareObjects(o1, o2) ==
  LET keys1 == DOMAIN o1
      keys2 == DOMAIN o2
  IN  IF Cardinality(keys1) # Cardinality(keys2) THEN FALSE
      ELSE \A key \in keys1 : StrictEquals(Get(o1, key), Get(o2, key))

CompareObjects ==
  /\ equal = << >>
  /\ equal' = << compareObjects(obj1, obj2) >>
  /\ UNCHANGED <<obj1, obj2, builderVars, ticketVars>>

InitCompare ==
  /\ obj1 \in Objects
  /\ obj2 \in Objects
  /\ equal = << >>
  /\ IdleBuilder
  /\ IdleTickets

NextCompare == CompareObjects

SpecCompare == InitCompare /\ [][NextCompare]_vars

\* ------------------------------------------------------------------ what the claims speak of

Singletons == { "element", "id", "pseudoElement" }

Rank(type) ==
  CASE type = "element" -> 1
    [] type = "id" -> 2
    [] type = "class" -> 3
    [] type = "attr" -> 4
    [] type = "pseudoClass" -> 5
    [] type = "pseudoElement" -> 6

Text(type, value) ==
  CASE type = "element" -> value
    [] type = "id" -> <<"#">> \o value
    [] type = "class" -> <<".">> \o value
    [] type = "attr" -> <<"[">> \o value \o <<"]">>
    [] type = "pseudoClass" -> <<":">> \o value
    [] type = "pseudoElement" -> <<":", ":">> \o value

\* The string a chain of calls stands for.
RECURSIVE RefString(_)
RefString(calls) ==
  IF calls = << >> THEN << >>
  ELSE Text(Head(calls).type, Head(calls).value) \o RefString(Tail(calls))

Occurrences(seq, type) == Cardinality({ i \in 1..Len(seq) : seq[i].type = type })

NonDecreasing(seq) == \A i \in 2..Len(seq) : Rank(seq[i - 1].type) <= Rank(seq[i].type)

\* A chain of calls the grammar element#id.class[attr]:pseudoClass::pseudoElement allows.
ValidChain(calls) ==
  /\ NonDecreasing(calls)
  /\ \A t \in Singletons : Occurrences(calls, t) <= 1

SelectorsOf(o) == arrays[objs[o].selectors]

\* The call `last` records, as an entry of a chain.
LastCall == [type |-> last.type, value |-> last.value]

\* The builder method of the given name.
Method(type, arrs, this, value) ==
  CASE type = "element" -> element(arrs, this, value)
    [] type = "id" -> id(arrs, this, value)
    [] type = "class" -> class(arrs, this, value)
    [] type = "attr" -> attr(arrs, this, value)
    [] type = "pseudoClass" -> pseudoClass(arrs, this, value)
    [] type = "pseudoElement" -> pseudoElement(arrs, this, value)

\* A chain of calls run on its own, from a cssSelectorBuilder nobody else uses:
\* the outcome, the step that threw (0 if none) and the fragments of the result.
RECURSIVE RunAlone(_)
RunAlone(calls) ==
  IF calls = << >>
    THEN [outcome |-> "ok", step |-> 0, selectors |-> << >>, arrays |-> << << >> >>, this |-> 1]
    ELSE LET n    == Len(calls)
             prev == RunAlone(SubSeq(calls, 1, n - 1))
             r    == Method(calls[n].type, prev.arrays, prev.this, calls[n].value)
         IN  IF prev.outcome # "ok" THEN prev
             ELSE IF r.outcome # "ok"
               THEN [outcome |-> r.outcome, step |-> n, selectors |-> << >>,
                     arrays |-> prev.arrays, this |-> 0]
               ELSE [outcome |-> "ok", step |-> 0, selectors |-> r.arrays[r.ref],
                     arrays |-> r.arrays, this |-> r.ref]

\* ------------------------------------------------------------------ claims

\* C1: every selector the builder has returned has fragments whose orders are
\* those of their types (element 1 ... pseudoElement 6) and non-decreasing, and
\* holds at most one element, one id and one pseudoElement fragment.
WellFormed ==
  \A o \in Selectors :
     /\ \A i \in 1..Len(SelectorsOf(o)) : SelectorsOf(o)[i].order = Rank(SelectorsOf(o)[i].type)
     /\ \A i \in 2..Len(SelectorsOf(o)) : SelectorsOf(o)[i - 1].order <= SelectorsOf(o)[i].order
     /\ \A t \in Singletons : Occurrences(SelectorsOf(o), t) <= 1

WellFormedWitness ==
  \E o \in Selectors :
     /\ Len(SelectorsOf(o)) = 2
     /\ SelectorsOf(o)[1].type = "element"
     /\ SelectorsOf(o)[2].type = "pseudoElement"

\* C2: a call that extends its receiver's chain to a valid chain (ranks
\* non-decreasing, equal ranks allowed, each singleton at most once) raises nothing.
ValidAccepted ==
  (last.op = "call" /\ ValidChain(Append(chain[last.recv], LastCall))) => last.outcome = "ok"

ValidAcceptedWitness ==
  /\ last.op = "call"
  /\ last.outcome = "ok"
  /\ chain[last.recv] # << >>
  /\ chain[last.recv][Len(chain[last.recv])].type = "class"
  /\ last.type = "class"

\* The call `last` records adds a fragment of strictly lower rank than the last
\* fragment of its receiver.
LowerRank ==
  /\ last.op = "call"
  /\ chain[last.recv] # << >>
  /\ Rank(last.type) < Rank(chain[last.recv][Len(chain[last.recv])].type)

\* The call `last` records adds a second element, id or pseudoElement.
SecondSingleton ==
  /\ last.op = "call"
  /\ last.type \in Singletons
  /\ Occurrences(chain[last.recv], last.type) > 0

\* C3 as stated: a call that adds a fragment of strictly lower rank than the one
\* before it raises the ordering error and nothing else.
LowerRankRaisesOrder == LowerRank => last.outcome = "order"

\* C3 as amended: such a call raises the ordering error unless the receiver
\* already holds a fragment of the called singleton type; then it raises the
\* duplicate error.
LowerRankRejected ==
  LowerRank => last.outcome = (IF SecondSingleton THEN "dup" ELSE "order")

LowerRankRejectedWitness ==
  /\ LowerRank
  /\ ~SecondSingleton
  /\ last.type = "element"
  /\ last.outcome = "order"

\* C4: a second element, id or pseudoElement raises the duplicate error, never
\* the ordering error, whatever the order; class, attr and pseudoClass never
\* raise the duplicate error.
DuplicateFirst ==
  /\ SecondSingleton => last.outcome = "dup"
  /\ (last.op = "call" /\ last.type \notin Singletons) => last.outcome # "dup"

DuplicateFirstWitness ==
  /\ SecondSingleton
  /\ LowerRank
  /\ last.type = "element"
  /\ last.outcome = "dup"

\* C5: a builder call, returning or throwing, leaves every object of the heap
\* and its fragments as they were and cssSelectorBuilder.selectors empty; a call
\* that returns adds one object whose fragments are the receiver's plus one of
\* the called type; a call that throws adds none.
NoMutation ==
  [][ /\ Len(objs') >= Len(objs)
      /\ \A o \in 1..Len(objs) :
            /\ objs'[o] = objs[o]
            /\ objs[o].kind = "selector" => arrays'[objs[o].selectors] = SelectorsOf(o)
      /\ arrays'[objs'[1].selectors] = << >>
      /\ (last'.op = "call" /\ last'.outcome = "ok") =>
            /\ Len(objs') = Len(objs) + 1
            /\ last'.result = Len(objs')
            /\ objs'[last'.result].kind = "selector"
            /\ LET new == arrays'[objs'[last'.result].selectors]
                   old == SelectorsOf(last'.recv)
               IN  /\ Len(new) = Len(old) + 1
                   /\ SubSeq(new, 1, Len(old)) = old
                   /\ new[Len(new)].type = last'.type
      /\ (last'.op = "call" /\ last'.outcome # "ok") =>
            /\ objs' = objs
            /\ last'.result = 0
    ]_vars

\* Two selectors branched from cssSelectorBuilder, the second after the first.
NoMutationWitness ==
  /\ Len(objs) = 3
  /\ last.op = "call" /\ last.outcome = "ok" /\ last.recv = 1 /\ last.result = 3
  /\ objs[2].kind = "selector"
  /\ SelectorsOf(1) = << >>
  /\ Len(SelectorsOf(2)) = 1
  /\ Len(SelectorsOf(3)) = 1

\* C6: stringify of a selector is the concatenation, in call order, of value,
\* '#'+value, '.'+value, '['+value+']', ':'+value, '::'+value by type; it is ''
\* for cssSelectorBuilder, and the call changes no object.
StringifyConcatenates ==
  [][ last'.op = "stringify" =>
        /\ UNCHANGED <<arrays, objs>>
        /\ objs[last'.recv].kind = "selector" => last'.str = RefString(chain[last'.recv])
        /\ last'.recv = 1 => last'.str = << >>
    ]_vars

StringifyConcatenatesWitness ==
  /\ last.op = "stringify"
  /\ objs[last.recv].kind = "selector"
  /\ Len(chain[last.recv]) = 2
  /\ chain[last.recv][1].type = "id"
  /\ chain[last.recv][2].type = "attr"
  /\ last.str = <<"#", "a", "[", "b", "c", "]">>

\* C7: combine raises nothing whatever the combinator, and the stringify of its
\* result is left.stringify() + ' ' + combinator + ' ' + right.stringify(),
\* also when an operand is itself a result of combine.
CombineJoins ==
  /\ last.op = "combine" =>
        /\ last.outcome = "ok"
        /\ last.result = Len(objs)
        /\ objs[last.result].kind = "combined"
  /\ (last.op = "stringify" /\ objs[last.recv].kind = "combined") =>
        last.str = callStringify(objs, arrays, objs[last.recv].selector1)
                   \o <<" ">> \o objs[last.recv].combinator \o <<" ">>
                   \o callStringify(objs, arrays, objs[last.recv].selector2)

\* A ' ' combinator between a selector and a nested combine: three spaces.
CombineJoinsWitness ==
  /\ last.op = "stringify"
  /\ objs[last.recv].kind = "combined"
  /\ objs[last.recv].combinator = <<" ">>
  /\ objs[objs[last.recv].selector2].kind = "combined"
  /\ objs[objs[last.recv].selector2].combinator = <<"+">>
  /\ last.str = <<" ", " ", " ", " ", "+", " ">>

\* C8: whatever other chains were built from the same cssSelectorBuilder in
\* between, every selector holds what its own chain produces when run alone, a
\* call ends as it does at the end of its chain run alone (returning, or
\* throwing the same error at the same step), and so does stringify.
Independent ==
  /\ \A o \in Selectors :
        /\ RunAlone(chain[o]).outcome = "ok"
        /\ RunAlone(chain[o]).selectors = SelectorsOf(o)
  /\ last.op = "call" =>
        LET alone == RunAlone(Append(chain[last.recv], LastCall))
        IN  /\ alone.outcome = last.outcome
            /\ alone.outcome # "ok" => alone.step = Len(chain[last.recv]) + 1
            /\ alone.outcome = "ok" => alone.selectors = SelectorsOf(last.result)
  /\ (last.op = "stringify" /\ objs[last.recv].kind = "selector") =>
        last.str = stringify(RunAlone(chain[last.recv]).selectors)

\* Two chains from cssSelectorBuilder, the second call of the first chain made
\* after the first call of the second chain.
IndependentWitness ==
  /\ Len(objs) = 3
  /\ Len(chain[2]) = 1
  /\ Len(chain[3]) = 1
  /\ last.op = "call"
  /\ last.recv = 2
  /\ last.outcome = "dup"

\* Whether the queue can be served in order from the till, trying every way of
\* making each customer's change out of the bills earlier customers paid with.
RECURSIVE CanServe(_, _)
CanServe(q, till) ==
  IF q = << >> THEN TRUE
  ELSE \E n25 \in 0..till[25], n50 \in 0..till[50], n100 \in 0..till[100] :
          /\ 25 * n25 + 50 * n50 + 100 * n100 = Head(q) - 25
          /\ CanServe(Tail(q),
                      [b \in Bills |->
                         till[b] - (CASE b = 25 -> n25 [] b = 50 -> n50 [] b = 100 -> n100)
                                 + (IF b = Head(q) THEN 1 ELSE 0)])

\* C9: sellTickets returns true exactly when every customer of the queue can be
\* given exact change, in order, out of the bills collected before.
GreedyIsExact ==
  sold # << >> => sold[1] = CanServe(queue, [b \in Bills |-> 0])

\* A queue served only by keeping the three 25s and changing the 100 with 50+25.
GreedyIsExactWitness ==
  /\ queue = <<25, 25, 25, 25, 50, 100, 50>>
  /\ sold = << TRUE >>

\* C10: compareObjects returns true exactly when the objects have the same own
\* keys and strictly equal values under each of them.
ComparesEqual ==
  equal # << >> =>
     equal[1] = (/\ DOMAIN obj1 = DOMAIN obj2
                 /\ \A key \in DOMAIN obj1 : StrictEquals(obj1[key], obj2[key]))

====
